---- MODULE Spec2Model ----
(***************************************************************************)
(* Model of examples/lightrag_user_query_header_demo.py: the LLM callback  *)
(* llm_model_func that LightRAG invokes for every generation request, the  *)
(* environment it reads, and the callers that pass it its arguments.       *)
(*                                                                         *)
(* llm_model_func is a coroutine.  Its body runs without suspension up to  *)
(* the await of openai_complete_if_cache (the transport); the event loop   *)
(* runs one coroutine at a time, which the variable running records.       *)
(*                                                                         *)
(* The module runs main only as a script (line 229).  Imported, it offers  *)
(* llm_model_func to any host, which calls it in whatever environment the  *)
(* process has; run as a script, main checks the API key first and then    *)
(* drives its three scenarios.                                             *)
(***************************************************************************)
EXTENDS Integers, Sequences, FiniteSets, TLC

VARIABLES
    environ,                    \* os.environ after load_dotenv (line 33)
    main_pc,                    \* where main is; "imported" while it has not been started
    default_history_messages,   \* the list object of the default history_messages=[] (line 41)
    calls,                      \* one record per invocation slot of llm_model_func
    running                     \* the coroutine the event loop is executing, or None

vars == <<environ, main_pc, default_history_messages, calls, running>>

-----------------------------------------------------------------------------
(* Bounds of the model.                                                    *)

\* longest explicit message history a caller passes
MaxHistoryLen == 1

-----------------------------------------------------------------------------
(* Values.                                                                 *)

\* Python's None
None == "<None>"

\* the empty dict {}
EmptyMap == [k \in {} |-> ""]

\* truth value of a str-or-None, as `if x:` and `x or y` test it
Truthy(v) == v # None /\ v # ""

\* Python's `a or b`
PyOr(a, b) == IF Truthy(a) THEN a ELSE b

\* os.getenv(name, default)
getenv(name, default) == IF environ[name] = None THEN default ELSE environ[name]

\* invocation slots: the pipeline stages that may be in flight at once
Slots == {"s1", "s2"}

\* the two deployments of the file's own description: nothing set (the
\* defaults of lines 17-18), or the .env example of lines 215-217
Deployments ==
    { [LLM_MODEL |-> None,         LLM_BINDING_HOST |-> None],
      [LLM_MODEL |-> "qwen-local", LLM_BINDING_HOST |-> "http://localhost:8000/v1"] }

\* the environments the process may be started in; a variable is unset
\* (None), set to the empty string, or set to a value
Environments ==
    { [ LLM_MODEL           |-> d.LLM_MODEL,
        LLM_BINDING_HOST    |-> d.LLM_BINDING_HOST,
        LLM_QUERY_MODEL     |-> q,
        OPENAI_API_KEY      |-> k1,
        LLM_BINDING_API_KEY |-> k2 ] :
      d \in Deployments,
      q \in {None, "", "gpt-4o"},
      k1 \in {None, "", "sk-primary"},
      k2 \in {None, "sk-fallback"} }

-----------------------------------------------------------------------------
(* main: configuration read at startup.                                    *)

\* api_key of main, lines 87 and 73: OPENAI_API_KEY or LLM_BINDING_API_KEY
resolve_api_key == PyOr(environ.OPENAI_API_KEY, environ.LLM_BINDING_API_KEY)

\* llm_model of main, line 93
llm_model == getenv("LLM_MODEL", "gpt-4o-mini")

\* llm_query_model of main, line 94
llm_query_model == getenv("LLM_QUERY_MODEL", None)

-----------------------------------------------------------------------------
(* Callers: the call context and the arguments it becomes.                 *)

Origins == {"UserQuery", "Internal", None}

HeaderOverrideChoices ==
    { EmptyMap,
      [h \in {"X-User-Query"} |-> "forced"],
      [h \in {"X-Trace"} |-> "t1"] }

\* call contexts: origin (None: left unset), model override, header overrides
Contexts ==
    [ origin                    : Origins,
      explicit_model_override   : {None, "custom-model"},
      explicit_header_overrides : HeaderOverrideChoices ]

\* The llm_query_model keyword a caller passes for a context: a user query
\* passes QueryParam(llm_query_model=llm_query_model) (lines 164-168), an
\* internal query passes a QueryParam without it (lines 188-191); a caller
\* that names a model itself sets the same parameter (line 205).
llm_query_model_param(ctx) ==
    IF ctx.explicit_model_override # None THEN ctx.explicit_model_override
    ELSE IF ctx.origin = "UserQuery" THEN llm_query_model
    ELSE None

\* values of the keyword arguments callers pass
KwargValue ==
    [ k \in {"hashing_kv", "temperature", "max_tokens", "base_url"} |->
        CASE k = "hashing_kv"  -> "<hashing_kv object>"
          [] k = "temperature" -> "0.7"
          [] k = "max_tokens"  -> "512"
          [] k = "base_url"    -> "http://other-host/v1" ]

Kwargs(keys) == [k \in keys |-> KwargValue[k]]

KwargsChoices ==
    { Kwargs({}),
      Kwargs({"hashing_kv"}),
      Kwargs({"temperature"}),
      Kwargs({"hashing_kv", "temperature", "max_tokens"}),
      Kwargs({"hashing_kv", "base_url"}) }

Messages == {"m1"}

Histories == UNION { [1 .. n -> Messages] : n \in 1 .. MaxHistoryLen }

\* prompt, system prompt, history and keyword_extraction of one invocation:
\* history_messages omitted (the default list) or given
Contents ==
    { [ prompt |-> "p1", system_prompt |-> None, history_given |-> FALSE,
        history_messages |-> <<>>, keyword_extraction |-> FALSE ],
      [ prompt |-> "p2", system_prompt |-> "sys", history_given |-> FALSE,
        history_messages |-> <<>>, keyword_extraction |-> TRUE ] }
    \cup
    { [ prompt |-> "p1", system_prompt |-> "sys", history_given |-> TRUE,
        history_messages |-> h, keyword_extraction |-> FALSE ] : h \in Histories }
    \cup
    { [ prompt |-> "p2", system_prompt |-> None, history_given |-> TRUE,
        history_messages |-> h, keyword_extraction |-> TRUE ] : h \in Histories }

\* the arguments of one invocation, other than llm_query_model
Arguments ==
    { [ prompt             |-> t.prompt,
        system_prompt      |-> t.system_prompt,
        history_given      |-> t.history_given,
        history_messages   |-> t.history_messages,
        keyword_extraction |-> t.keyword_extraction,
        kwargs             |-> kw ] :
      t \in Contents, kw \in KwargsChoices }

-----------------------------------------------------------------------------
(* llm_model_func.                                                         *)

\* a slot with no invocation in it
IdleCall ==
    [ pc                 |-> "idle",
      ctx                |-> [ origin |-> None,
                               explicit_model_override |-> None,
                               explicit_header_overrides |-> EmptyMap ],
      prompt             |-> None,
      system_prompt      |-> None,
      history_given      |-> FALSE,
      history_messages   |-> <<>>,
      keyword_extraction |-> FALSE,
      llm_query_model    |-> None,
      kwargs             |-> EmptyMap,
      model              |-> None,
      kwargs_copy        |-> EmptyMap,
      steps              |-> <<>>,
      sent               |-> <<>>,
      reply              |-> None,
      result             |-> None,
      transport_error    |-> None,
      error              |-> None ]

\* lines 38-45: the call binds the parameters; an omitted history_messages
\* is bound to the function's one default list
Enter(c, ctx, a) ==
    /\ running = None
    /\ calls[c].pc = "idle"
    /\ calls' = [calls EXCEPT ![c] =
                    [ IdleCall EXCEPT
                        !.pc = "entered",
                        !.ctx = ctx,
                        !.prompt = a.prompt,
                        !.system_prompt = a.system_prompt,
                        !.history_given = a.history_given,
                        !.history_messages = a.history_messages,
                        !.keyword_extraction = a.keyword_extraction,
                        !.llm_query_model = llm_query_model_param(ctx),
                        !.kwargs = a.kwargs ]]
    /\ running' = c
    /\ UNCHANGED <<environ, main_pc, default_history_messages>>

\* select_model with the query model dropped: every call gets LLM_MODEL
select_model_ignores_query(query_model) ==
    getenv("LLM_MODEL", "gpt-4o-mini")

\* select_model falling back to LLM_QUERY_MODEL before LLM_MODEL
select_model_reads_env_query(query_model) ==
    IF Truthy(query_model) THEN query_model
    ELSE getenv("LLM_QUERY_MODEL", getenv("LLM_MODEL", "gpt-4o-mini"))

\* select_model preferring the environment's query model to the argument
select_model_prefers_env(query_model) ==
    IF Truthy(llm_query_model) THEN llm_query_model
    ELSE IF Truthy(query_model) THEN query_model
    ELSE getenv("LLM_MODEL", "gpt-4o-mini")

\* lines 53-58: the model of this call
select_model(query_model) ==
    IF Truthy(query_model) THEN query_model
    ELSE getenv("LLM_MODEL", "gpt-4o-mini")

\* SelectModel run in the order sanitize, then select: both in the first step
SelectModelAfterSanitize(c) ==
    /\ running = c
    /\ calls[c].pc = "entered"
    /\ calls' = [calls EXCEPT
                    ![c].kwargs_copy =
                        [k \in (DOMAIN calls[c].kwargs) \ {"hashing_kv"} |-> calls[c].kwargs[k]],
                    ![c].model = select_model(calls[c].llm_query_model),
                    ![c].steps = @ \o <<"sanitize", "select_model">>,
                    ![c].pc = "sanitized"]
    /\ UNCHANGED <<environ, main_pc, default_history_messages, running>>

SelectModel(c) ==
    /\ running = c
    /\ calls[c].pc = "entered"
    /\ calls' = [calls EXCEPT
                    ![c].model = select_model(calls[c].llm_query_model),
                    ![c].steps = Append(@, "select_model"),
                    ![c].pc = "decided"]
    /\ UNCHANGED <<environ, main_pc, default_history_messages, running>>

\* sanitize without the pop: the copy keeps every key
sanitize_keeps_all(kwargs) == kwargs

\* lines 63-64: kwargs.copy() without the key hashing_kv
sanitize(kwargs) ==
    [k \in (DOMAIN kwargs) \ {"hashing_kv"} |-> kwargs[k]]

Sanitize(c) ==
    /\ running = c
    /\ calls[c].pc = "decided"
    /\ calls' = [calls EXCEPT
                    ![c].kwargs_copy = sanitize(calls[c].kwargs),
                    ![c].steps = Append(@, "sanitize"),
                    ![c].pc = "sanitized"]
    /\ UNCHANGED <<environ, main_pc, default_history_messages, running>>

\* ResolveHeaders without the overlay of the caller's overrides
ResolveHeadersNoOverlay(ctx) ==
    [h \in {"X-User-Query"} |->
        IF ctx.origin = "UserQuery" THEN "true" ELSE "false"]

\* Marker header of the header-based policy variant, with the caller's
\* overrides laid over it.  The code that emits headers is not part of
\* lightrag_user_query_header_demo.py; this follows the routing policy's
\* description.
ResolveHeaders(ctx) ==
    LET marker == IF ctx.origin = "UserQuery" THEN "true" ELSE "false"
        ov     == ctx.explicit_header_overrides
    IN  [h \in {"X-User-Query"} \cup DOMAIN ov |->
            IF h \in DOMAIN ov THEN ov[h] ELSE marker]

\* the keywords the call of lines 66-76 names itself
NamedKeywords ==
    { "model", "prompt", "system_prompt", "history_messages",
      "llm_query_model", "keyword_extraction", "api_key", "base_url" }

\* the list bound to history_messages in this invocation
history_of(c) ==
    IF calls[c].history_given THEN calls[c].history_messages
    ELSE default_history_messages

\* lines 66-76: the keyword arguments handed to openai_complete_if_cache.
\* The call names no headers; the field headers is what the transport layer
\* puts on the wire for the call's context (ResolveHeaders).
TransportRequest(c) ==
    [ model              |-> calls[c].model,
      prompt             |-> calls[c].prompt,
      system_prompt      |-> calls[c].system_prompt,
      history_messages   |-> history_of(c),
      llm_query_model    |-> calls[c].llm_query_model,
      keyword_extraction |-> calls[c].keyword_extraction,
      api_key            |-> resolve_api_key,
      base_url           |-> getenv("LLM_BINDING_HOST", "https://api.openai.com/v1"),
      kwargs             |-> calls[c].kwargs_copy,
      headers            |-> ResolveHeaders(calls[c].ctx) ]

\* Dispatch that also records the prompt in the history list before the call:
\* an invocation without history_messages then writes to the default list
DispatchAppendsToDefault(c) ==
    /\ running = c
    /\ calls[c].pc = "sanitized"
    /\ IF (DOMAIN calls[c].kwargs_copy) \cap NamedKeywords # {}
       THEN calls' = [calls EXCEPT
                        ![c].error = "TypeError",
                        ![c].pc = "raised"]
       ELSE calls' = [calls EXCEPT
                        ![c].sent = Append(@, TransportRequest(c)),
                        ![c].steps = Append(@, "dispatch"),
                        ![c].pc = "awaiting"]
    /\ default_history_messages' =
            IF calls[c].history_given THEN default_history_messages
            ELSE Append(default_history_messages, calls[c].prompt)
    /\ running' = None
    /\ UNCHANGED <<environ, main_pc>>

\* lines 66-76: the call expression.  A key of kwargs_copy that repeats a
\* named keyword makes the call raise TypeError before the callee runs;
\* otherwise the transport is invoked once and the coroutine suspends.
Dispatch(c) ==
    /\ running = c
    /\ calls[c].pc = "sanitized"
    /\ IF (DOMAIN calls[c].kwargs_copy) \cap NamedKeywords # {}
       THEN calls' = [calls EXCEPT
                        ![c].error = "TypeError",
                        ![c].pc = "raised"]
       ELSE calls' = [calls EXCEPT
                        ![c].sent = Append(@, TransportRequest(c)),
                        ![c].steps = Append(@, "dispatch"),
                        ![c].pc = "awaiting"]
    /\ running' = None
    /\ UNCHANGED <<environ, main_pc, default_history_messages>>

\* what the transport may answer
Replies == {"r1", "r2"}

\* how the transport may fail
TransportErrors == {"TransportError"}

\* llm_model_func without its return statement
return_value_dropped(result) == None

\* line 78: return result
return_value(result) == result

\* lines 66, 77-78: the awaited call returns, the coroutine resumes and
\* returns the result
AwaitReturns(c, text) ==
    /\ running = None
    /\ calls[c].pc = "awaiting"
    /\ calls' = [calls EXCEPT
                    ![c].reply = text,
                    ![c].result = return_value(text),
                    ![c].steps = Append(@, "return"),
                    ![c].pc = "returned"]
    /\ UNCHANGED <<environ, main_pc, default_history_messages, running>>

\* AwaitRaises with a retry: the failure is caught and the request sent again
AwaitRaisesRetry(c, err) ==
    /\ running = None
    /\ calls[c].pc = "awaiting"
    /\ calls' = [calls EXCEPT
                    ![c].transport_error = err,
                    ![c].sent = Append(@, TransportRequest(c))]
    /\ UNCHANGED <<environ, main_pc, default_history_messages, running>>

\* line 66: the awaited call raises; nothing in llm_model_func catches it
AwaitRaises(c, err) ==
    /\ running = None
    /\ calls[c].pc = "awaiting"
    /\ calls' = [calls EXCEPT
                    ![c].transport_error = err,
                    ![c].error = err,
                    ![c].pc = "raised"]
    /\ UNCHANGED <<environ, main_pc, default_history_messages, running>>

\* the caller takes the outcome (lines 145, 170, 193) and the slot is free
Collect(c) ==
    /\ running = None
    /\ calls[c].pc \in {"returned", "raised"}
    /\ calls' = [calls EXCEPT ![c] = IdleCall]
    /\ UNCHANGED <<environ, main_pc, default_history_messages, running>>

-----------------------------------------------------------------------------
(* The module: imported by a host, or run as a script.                     *)

Init ==
    /\ environ \in Environments
    /\ main_pc = "imported"
    /\ default_history_messages = <<>>
    /\ calls = [c \in Slots |-> IdleCall]
    /\ running = None

AllIdle == \A d \in Slots : calls[d].pc = "idle"

\* A host that imported the module calls llm_model_func, one call at a time,
\* for any call context and arguments.
DirectCall ==
    \E ctx \in Contexts, a \in Arguments :
        /\ main_pc = "imported"
        /\ AllIdle
        /\ Enter("s1", ctx, a)

\* lines 86-122: main returns when no API key is set, and otherwise builds
\* LightRAG with llm_model_func and starts scenario 1
main_start ==
    /\ main_pc = "imported"
    /\ AllIdle
    /\ running = None
    /\ main_pc' = IF ~ Truthy(resolve_api_key) THEN "aborted" ELSE "insert"
    /\ UNCHANGED <<environ, default_history_messages, calls, running>>

MainPhases == {"insert", "query_user", "query_internal"}

\* the call context of each scenario of main: ainsert has no QueryParam
\* (line 145), param_user sets llm_query_model (lines 164-168),
\* param_internal does not (lines 188-191)
MainContext(phase) ==
    [ origin                    |-> CASE phase = "insert"         -> None
                                      [] phase = "query_user"     -> "UserQuery"
                                      [] phase = "query_internal" -> "Internal",
      explicit_model_override   |-> None,
      explicit_header_overrides |-> EmptyMap ]

\* LightRAG passes its cache handle as hashing_kv (line 64) and names no
\* keyword of lines 67-74
MainArguments ==
    { a \in Arguments :
        /\ "hashing_kv" \in DOMAIN a.kwargs
        /\ (DOMAIN a.kwargs) \cap NamedKeywords = {} }

\* lines 145, 170, 193: the awaited operation calls llm_model_func
MainCall ==
    \E a \in MainArguments :
        /\ main_pc \in MainPhases
        /\ AllIdle
        /\ Enter("s1", MainContext(main_pc), a)

\* lines 145-226: the awaited operation returns and main goes on
main_advance ==
    /\ main_pc \in MainPhases
    /\ AllIdle
    /\ running = None
    /\ main_pc' = CASE main_pc = "insert"         -> "query_user"
                    [] main_pc = "query_user"     -> "query_internal"
                    [] main_pc = "query_internal" -> "done"
    /\ UNCHANGED <<environ, default_history_messages, calls, running>>

\* lines 230-241: an exception of a call leaves main and ends the run
main_raises ==
    \E c \in Slots :
        /\ main_pc \in MainPhases
        /\ running = None
        /\ calls[c].pc = "raised"
        /\ main_pc' = "failed"
        /\ calls' = [calls EXCEPT ![c] = IdleCall]
        /\ UNCHANGED <<environ, default_history_messages, running>>

Step ==
    \E c \in Slots :
        \/ SelectModel(c)
        \/ Sanitize(c)
        \/ Dispatch(c)
        \/ \E text \in Replies : AwaitReturns(c, text)
        \/ \E err \in TransportErrors : AwaitRaises(c, err)
        \/ Collect(c)

Next ==
    \/ DirectCall
    \/ main_start
    \/ MainCall
    \/ main_advance
    \/ main_raises
    \/ Step

Spec == Init /\ [][Next]_vars

-----------------------------------------------------------------------------
(* A host whose pipeline stages invoke llm_model_func concurrently (entity *)
(* extraction calls alongside a user query).                               *)

ConcurrentContexts ==
    [ origin                    : {"UserQuery", "Internal"},
      explicit_model_override   : {None},
      explicit_header_overrides : {EmptyMap} ]

\* the stages pass the cache handle and nothing else
ConcurrentArguments ==
    { a \in Arguments : a.kwargs = Kwargs({"hashing_kv"}) }

\* a stage calls while other invocations are suspended in their await
ConcurrentCall ==
    \E c \in Slots, ctx \in ConcurrentContexts, a \in ConcurrentArguments :
        /\ main_pc = "imported"
        /\ Enter(c, ctx, a)

NextConcurrent == ConcurrentCall \/ Step

SpecConcurrent == Init /\ [][NextConcurrent]_vars

-----------------------------------------------------------------------------
(* Properties.                                                             *)

\* the requests slot c has handed to the transport
Requests(c) == { calls[c].sent[i] : i \in DOMAIN calls[c].sent }

\* C1: a call whose context has origin UserQuery and no model override
\* sends the configured query model when one is configured (set and not
\* empty), and the configured default model when none is.
C1_UserQueryModel ==
    \A c \in Slots : \A r \in Requests(c) :
        ( calls[c].ctx.origin = "UserQuery"
          /\ calls[c].ctx.explicit_model_override = None )
        => r.model = IF Truthy(environ.LLM_QUERY_MODEL)
                     THEN environ.LLM_QUERY_MODEL
                     ELSE llm_model

C1_Witness ==
    \E c \in Slots :
        /\ main_pc = "query_user"
        /\ calls[c].ctx.origin = "UserQuery"
        /\ calls[c].ctx.explicit_model_override = None
        /\ environ.LLM_QUERY_MODEL = "gpt-4o"
        /\ environ.LLM_MODEL = "qwen-local"
        /\ \E r \in Requests(c) : r.model = "gpt-4o"

\* C2: a call whose context has origin Internal, or no origin, and no model
\* override sends the configured default model, whether or not a query
\* model is configured.
C2_InternalModel ==
    \A c \in Slots : \A r \in Requests(c) :
        ( calls[c].ctx.origin \in {"Internal", None}
          /\ calls[c].ctx.explicit_model_override = None )
        => r.model = llm_model

C2_Witness ==
    \E c \in Slots :
        /\ main_pc = "query_internal"
        /\ calls[c].ctx.origin = "Internal"
        /\ calls[c].ctx.explicit_model_override = None
        /\ environ.LLM_QUERY_MODEL = "gpt-4o"
        /\ environ.LLM_MODEL = "qwen-local"
        /\ \E r \in Requests(c) : r.model = "qwen-local"

\* C3: a call whose context carries a model override sends that override,
\* for every origin and every configuration.
C3_OverrideWins ==
    \A c \in Slots : \A r \in Requests(c) :
        calls[c].ctx.explicit_model_override # None
        => r.model = calls[c].ctx.explicit_model_override

C3_Witness ==
    \E c \in Slots :
        /\ calls[c].ctx.origin = "Internal"
        /\ calls[c].ctx.explicit_model_override = "custom-model"
        /\ environ.LLM_QUERY_MODEL = "gpt-4o"
        /\ \E r \in Requests(c) : r.model = "custom-model"

\* C4: when neither OPENAI_API_KEY nor LLM_BINDING_API_KEY yields a
\* credential, a call (with well-formed keyword arguments) never invokes the
\* transport and ends with ConfigurationError.
C4_NoCredentialFailsBeforeTransport ==
    \A c \in Slots :
        ( ~ Truthy(resolve_api_key)
          /\ calls[c].pc # "idle"
          /\ (DOMAIN calls[c].kwargs) \cap NamedKeywords = {} )
        => /\ calls[c].sent = <<>>
           /\ calls[c].pc \in {"returned", "raised"}
                => calls[c].error = "ConfigurationError"

\* C5: the keyword arguments that reach the transport are the caller's
\* minus exactly hashing_kv, each with its value, and sanitizing the
\* sanitized mapping again changes nothing.
C5_SanitizedKwargs ==
    \A c \in Slots :
        /\ \A r \in Requests(c) :
              /\ DOMAIN r.kwargs = (DOMAIN calls[c].kwargs) \ {"hashing_kv"}
              /\ \A k \in DOMAIN r.kwargs : r.kwargs[k] = calls[c].kwargs[k]
        /\ calls[c].pc \in {"sanitized", "awaiting", "returned", "raised"}
              => /\ "hashing_kv" \notin DOMAIN calls[c].kwargs_copy
                 /\ sanitize(calls[c].kwargs_copy) = calls[c].kwargs_copy

C5_Witness ==
    \E c \in Slots : \E r \in Requests(c) :
        /\ DOMAIN calls[c].kwargs = {"hashing_kv", "temperature", "max_tokens"}
        /\ DOMAIN r.kwargs = {"temperature", "max_tokens"}
        /\ r.kwargs["temperature"] = "0.7"

\* C6: an invocation that reaches the transport calls it exactly once; when
\* that call fails there is no second call and the invocation ends with the
\* transport's own failure and no result.
C6_OneTransportCall ==
    \A c \in Slots :
        /\ Len(calls[c].sent) <= 1
        /\ calls[c].pc \in {"awaiting", "returned"} => Len(calls[c].sent) = 1
        /\ calls[c].transport_error # None
              => /\ calls[c].pc = "raised"
                 /\ calls[c].error = calls[c].transport_error
                 /\ calls[c].result = None
                 /\ Len(calls[c].sent) = 1

C6_Witness ==
    \E c \in Slots :
        /\ calls[c].pc = "raised"
        /\ calls[c].transport_error = "TransportError"
        /\ calls[c].error = "TransportError"
        /\ Len(calls[c].sent) = 1

OwnRequest(c) ==
    [ model              |-> IF Truthy(calls[c].llm_query_model)
                             THEN calls[c].llm_query_model
                             ELSE llm_model,
      prompt             |-> calls[c].prompt,
      system_prompt      |-> calls[c].system_prompt,
      history_messages   |-> IF calls[c].history_given
                             THEN calls[c].history_messages
                             ELSE <<>>,
      llm_query_model    |-> calls[c].llm_query_model,
      keyword_extraction |-> calls[c].keyword_extraction,
      api_key            |-> resolve_api_key,
      base_url           |-> IF environ.LLM_BINDING_HOST = None
                             THEN "https://api.openai.com/v1"
                             ELSE environ.LLM_BINDING_HOST,
      kwargs             |-> [k \in (DOMAIN calls[c].kwargs) \ {"hashing_kv"} |->
                                calls[c].kwargs[k]],
      headers            |-> ResolveHeaders(calls[c].ctx) ]

\* C8: with invocations interleaved, each request sent is the one the
\* invocation's own arguments and the environment determine, and the one
\* object the invocations share (the default history list) stays empty.
C8_CallsIndependent ==
    /\ default_history_messages = <<>>
    /\ \A c \in Slots : \A r \in Requests(c) : r = OwnRequest(c)

C8_Witness ==
    \E c \in Slots, d \in Slots :
        /\ c # d
        /\ calls[c].pc = "awaiting"
        /\ calls[d].pc = "awaiting"
        /\ ~ calls[c].history_given
        /\ ~ calls[d].history_given
        /\ calls[c].prompt # calls[d].prompt
        /\ \E r \in Requests(c), q \in Requests(d) : r.model # q.model

C10_SanitizeThenResolve ==
    \A c \in Slots :
        LET order == <<"sanitize", "select_model", "dispatch", "return">> IN
        /\ Len(calls[c].steps) <= Len(order)
        /\ calls[c].steps = SubSeq(order, 1, Len(calls[c].steps))

\* C10 amended: within one call the steps run in the order select the
\* model, sanitize, invoke the transport (credential and endpoint are read
\* as its request is built), return; the transport is never invoked before
\* model selection and sanitization are done.
C10_SelectThenSanitize ==
    \A c \in Slots :
        /\ LET order == <<"select_model", "sanitize", "dispatch", "return">> IN
           /\ Len(calls[c].steps) <= Len(order)
           /\ calls[c].steps = SubSeq(order, 1, Len(calls[c].steps))
        /\ calls[c].model # None => Len(calls[c].steps) >= 1
        /\ calls[c].pc = "sanitized" => Len(calls[c].steps) = 2
        /\ calls[c].sent # <<>> => Len(calls[c].steps) >= 3
        /\ calls[c].pc = "returned" => Len(calls[c].steps) = 4

C10_Witness ==
    \E c \in Slots :
        /\ calls[c].pc = "returned"
        /\ calls[c].steps = <<"select_model", "sanitize", "dispatch", "return">>
        /\ "hashing_kv" \in DOMAIN calls[c].kwargs

====
